---- MODULE Spec2Model ----
(***************************************************************************)
(* Model of gamemeanmachine/http_storage/generators/project.py: the        *)
(* project generator (generate_project and its six composers) acting on a  *)
(* small filesystem.                                                       *)
(*                                                                         *)
(* A file's content is the sequence of its lines; a formatted line is      *)
(* built with string concatenation and ToString, as the f-strings of the   *)
(* source build it.  A path is the sequence of its components.             *)
(***************************************************************************)
EXTENDS Integers, Sequences, FiniteSets, TLC

VARIABLES fs, pc, req, err, failedAt, wrote, writer, atCall, overlapped

vars == <<fs, pc, req, err, failedAt, wrote, writer, atCall, overlapped>>

(***************************************************************************)
(* Paths                                                                   *)
(***************************************************************************)

\* A path is the sequence of its components; os.path.join appends one
Join(a, b) == Append(a, b)

\* the working directory of the invocation; it always exists
Root == <<>>

\* the two target directories the callers use; the first has a parent
\* directory that may be missing
TmpDir == <<"tmp">>
Target1 == Join(TmpDir, "proj1")
Target2 == <<"proj2">>
Targets == {Target1, Target2}

\* os.path.dirname(__file__) of project.py
PkgDir == <<"generators">>

\* where the repository ships the simple template
BundledDir == Join(PkgDir, "templates")
BundledSimple == Join(BundledDir, "simple-application-template.py")

\* caller-supplied template files: one with content, one that is an empty
\* file, and one that does not exist
UserDir == <<"mytpl">>
UserTemplate == Join(UserDir, "app.py")
EmptyTemplate == Join(UserDir, "empty.py")
MissingTemplate == Join(UserDir, "missing.py")

\* entries that are not produced by the generator (somebody else's content)
ForeignFile == "README.md"
ForeignDir == "data"

ServerDir(t) == Join(t, "server")
ComposePath(t) == Join(t, "docker-compose.yml")
EnvPath(t) == Join(t, ".env")
DockerfilePath(t) == Join(ServerDir(t), "Dockerfile")
RequirementsPath(t) == Join(ServerDir(t), "requirements.txt")
InitPath(t) == Join(ServerDir(t), "__init__.py")
AppPath(t) == Join(ServerDir(t), "app.py")

\* the six artifacts in the order generate_project writes them
WriteSequence(t) ==
    << ComposePath(t), EnvPath(t), DockerfilePath(t),
       RequirementsPath(t), InitPath(t), AppPath(t) >>

Artifacts(t) == { WriteSequence(t)[i] : i \in 1..Len(WriteSequence(t)) }

\* everything strictly below a target
Below(t) ==
    Artifacts(t) \cup {ServerDir(t), Join(t, ForeignFile), Join(t, ForeignDir)}

Tree(t) == {t} \cup Below(t)

Paths ==
    {TmpDir, PkgDir, BundledDir, UserDir}
        \cup Tree(Target1) \cup Tree(Target2)
        \cup { BundledSimple, UserTemplate, EmptyTemplate, MissingTemplate,
               Join(PkgDir, "simple-application-template.py"),
               Join(PkgDir, "multichar-application-template.py") }

\* os.path.dirname
Parent(p) == SubSeq(p, 1, Len(p) - 1)

\* the path and every directory above it, up to the working directory
Chain(p) == { SubSeq(p, 1, k) : k \in 1..Len(p) }

(***************************************************************************)
(* Filesystem entries                                                      *)
(***************************************************************************)

Absent == [kind |-> "absent", data |-> <<>>]
Dir == [kind |-> "dir", data |-> <<>>]
File(lines) == [kind |-> "file", data |-> lines]

IsDir(f, p) == p = Root \/ f[p].kind = "dir"

\* os.listdir
listdir(f, d) == { p \in Paths : Parent(p) = d /\ f[p].kind # "absent" }

\* the result of a filesystem call: the new filesystem, the error raised
\* ("" when none) and the paths the call created or wrote
Outcome(f, e, t) == [fs |-> f, err |-> e, touched |-> t]

\* a slip: os.mkdir, which does not create the missing parents
makedirs_no_parents(f, path) ==
    IF f[path].kind = "file" THEN Outcome(f, "FileExistsError", {})
    ELSE IF f[path].kind = "dir" THEN Outcome(f, "", {})
    ELSE IF ~IsDir(f, Parent(path)) THEN Outcome(f, "FileNotFoundError", {})
    ELSE Outcome([f EXCEPT ![path] = Dir], "", {path})

\* os.makedirs(path, exist_ok=True)
makedirs(f, path) ==
    IF \E a \in Chain(path) : f[a].kind = "file"
    THEN Outcome(f, IF f[path].kind = "file" THEN "FileExistsError"
                    ELSE "NotADirectoryError", {})
    ELSE LET made == { a \in Chain(path) : f[a].kind = "absent" }
         IN Outcome([p \in Paths |-> IF p \in made THEN Dir ELSE f[p]], "", made)

\* with open(path, "w") as f: f.write(contents)
write_file(f, path, contents) ==
    IF ~IsDir(f, Parent(path)) THEN Outcome(f, "FileNotFoundError", {})
    ELSE IF f[path].kind = "dir" THEN Outcome(f, "IsADirectoryError", {})
    ELSE Outcome([f EXCEPT ![path] = File(contents)], "", {path})

\* a slip: the destination is opened before the source is
copy_opening_dst_first(f, src, dst) ==
    IF src \notin Paths \/ f[src].kind = "absent"
    THEN Outcome(write_file(f, dst, <<>>).fs, "FileNotFoundError", {dst})
    ELSE write_file(f, dst, f[src].data)

\* shutil.copy(src, dst) for a dst that is not a directory
copy(f, src, dst) ==
    IF src \notin Paths \/ f[src].kind = "absent"
    THEN Outcome(f, "FileNotFoundError", {})
    ELSE IF f[src].kind = "dir" THEN Outcome(f, "IsADirectoryError", {})
    ELSE IF src = dst THEN Outcome(f, "SameFileError", {})
    ELSE write_file(f, dst, f[src].data)

(***************************************************************************)
(* Requests                                                                *)
(***************************************************************************)

DefaultMongodbPort == 27017
DefaultHttpPort == 8080

\* the defaults of generate_project's keyword parameters
DefaultParams ==
    [ mongodb_port |-> DefaultMongodbPort, http_port |-> DefaultHttpPort,
      mongodb_user |-> "admin", mongodb_pass |-> "p455w0rd",
      server_api_key |-> "sample-abcdef" ]

\* every parameter differs from its default
ScenarioParams ==
    [ mongodb_port |-> DefaultMongodbPort + 1, http_port |-> 9090,
      mongodb_user |-> "u", mongodb_pass |-> "p", server_api_key |-> "k1" ]

\* each port is the default's or the scenario's, and the credentials are
\* all the defaults or all the scenario's
AllParams ==
    { [ mongodb_port |-> m, http_port |-> h,
        mongodb_user |-> c.mongodb_user, mongodb_pass |-> c.mongodb_pass,
        server_api_key |-> c.server_api_key ] :
      m \in {DefaultParams.mongodb_port, ScenarioParams.mongodb_port},
      h \in {DefaultParams.http_port, ScenarioParams.http_port},
      c \in {DefaultParams, ScenarioParams} }

FewParams == {DefaultParams, ScenarioParams}

\* a selector is a path; a built-in identifier is one of these two
SimpleId == <<"default:simple">>
MultipleId == <<"default:multiple">>
BuiltinTemplates == {SimpleId, MultipleId}

\* the template selectors the callers use: the two built-in identifiers, an
\* existing file, an existing empty file, a missing file, and a file inside
\* the second target
Templates ==
    BuiltinTemplates
        \cup {UserTemplate, EmptyTemplate, MissingTemplate, EnvPath(Target2)}

Requests(targets, templates, params) ==
    { [ full_path |-> t, template |-> s,
        mongodb_port |-> q.mongodb_port, http_port |-> q.http_port,
        mongodb_user |-> q.mongodb_user, mongodb_pass |-> q.mongodb_pass,
        server_api_key |-> q.server_api_key ] :
      t \in targets, s \in templates, q \in params }

NoRequest ==
    [ full_path |-> <<>>, template |-> <<>>, mongodb_port |-> 0, http_port |-> 0,
      mongodb_user |-> "", mongodb_pass |-> "", server_api_key |-> "" ]

(***************************************************************************)
(* The composers' contents                                                 *)
(***************************************************************************)

\* a slip: the two ports in each other's place
ComposeContents_swapped(mongodb_port, http_port) ==
    << "version: '3.7'",
       "services:",
       "  mongodb:",
       "    image: mongo:6.0",
       "    env_file: .env",
       "    ports:",
       "      - " \o ToString(http_port) \o ":27017",
       "    expose:",
       "      - " \o ToString(http_port),
       "    volumes:",
       "      - .tmp/mongo:/data/db",
       "  http:",
       "    build:",
       "      context: ./server",
       "    env_file: .env",
       "    ports:",
       "      - " \o ToString(mongodb_port) \o ":8080",
       "    expose:",
       "      - " \o ToString(mongodb_port) >>

ComposeContents(mongodb_port, http_port) ==
    << "version: '3.7'",
       "services:",
       "  mongodb:",
       "    image: mongo:6.0",
       "    env_file: .env",
       "    ports:",
       "      - " \o ToString(mongodb_port) \o ":27017",
       "    expose:",
       "      - " \o ToString(mongodb_port),
       "    volumes:",
       "      - .tmp/mongo:/data/db",
       "  http:",
       "    build:",
       "      context: ./server",
       "    env_file: .env",
       "    ports:",
       "      - " \o ToString(http_port) \o ":8080",
       "    expose:",
       "      - " \o ToString(http_port) >>

EnvContents(mongodb_port, mongodb_user, mongodb_pass, server_api_key) ==
    << "MONGO_INITDB_ROOT_USERNAME=" \o mongodb_user,
       "MONGO_INITDB_ROOT_PASSWORD=" \o mongodb_pass,
       "DB_HOST=mongodb",
       "DB_PORT=" \o ToString(mongodb_port),
       "DB_USER=" \o mongodb_user,
       "DB_PASS=" \o mongodb_pass,
       "SERVER_API_KEY=" \o server_api_key,
       "WAITRESS_PORT=8080",
       "MODULE_NAME=app",
       "VARIABLE_NAME=app" >>

RequirementsContents ==
    << "# Place any requirements you need in this file.",
       "alephvault-http-mongodb-storage==0.0.4" >>

DockerfileContents ==
    << "FROM tecktron/python-waitress:python-3.7",
       "",
       "COPY ./ /app",
       "RUN pip install -r /app/requirements.txt",
       "# The /app/app.py file will be the entrypoint for waitress serve." >>

\* the first lines of templates/simple-application-template.py
SimpleTemplateContents ==
    << "import os",
       "import logging",
       "from flask import request, make_response, jsonify" >>

\* some caller's template
UserTemplateContents == << "from mygame import app" >>

(***************************************************************************)
(* The composers, as functions of the filesystem                           *)
(***************************************************************************)

_make_docker_compose_file(f, project_path, mongodb_port, http_port) ==
    write_file(f, Join(project_path, "docker-compose.yml"),
               ComposeContents(mongodb_port, http_port))

\* a slip: the file is written to a fixed place, not under project_path
_make_env_file_fixed(f, project_path, mongodb_port, mongodb_user, mongodb_pass, server_api_key) ==
    write_file(f, Join(Target2, ".env"),
               EnvContents(mongodb_port, mongodb_user, mongodb_pass, server_api_key))

_make_env_file(f, project_path, mongodb_port, mongodb_user, mongodb_pass, server_api_key) ==
    write_file(f, Join(project_path, ".env"),
               EnvContents(mongodb_port, mongodb_user, mongodb_pass, server_api_key))

_make_requirements_file(f, project_path) ==
    write_file(f, Join(Join(project_path, "server"), "requirements.txt"),
               RequirementsContents)

\* a slip: the recipe names the project's directory
_make_dockerfile_named(f, project_path) ==
    write_file(f, Join(Join(project_path, "server"), "Dockerfile"),
               << "FROM tecktron/python-waitress:python-3.7",
                  "",
                  "COPY ./ /" \o project_path[Len(project_path)],
                  "RUN pip install -r /app/requirements.txt" >>)

_make_dockerfile(f, project_path) ==
    write_file(f, Join(Join(project_path, "server"), "Dockerfile"),
               DockerfileContents)

_make_init_file(f, project_path) ==
    write_file(f, Join(Join(project_path, "server"), "__init__.py"), <<>>)

\* the source file _make_app_file copies from
ResolveTemplate(template) ==
    IF template = SimpleId
    THEN Join(PkgDir, "simple-application-template.py")
    ELSE IF template = MultipleId
    THEN Join(PkgDir, "multichar-application-template.py")
    ELSE template

\* a slip: the template is moved (shutil.move), not copied
_make_app_file_moving(f, project_path, template) ==
    LET o == copy(f, ResolveTemplate(template),
                  Join(Join(project_path, "server"), "app.py"))
    IN IF o.err # "" THEN o
       ELSE Outcome([o.fs EXCEPT ![ResolveTemplate(template)] = Absent], "",
                    o.touched \cup {ResolveTemplate(template)})

_make_app_file(f, project_path, template) ==
    copy(f, ResolveTemplate(template),
         Join(Join(project_path, "server"), "app.py"))

\* a slip: only the files of the directory are counted
check_empty_files_only(f, full_path) ==
    IF Cardinality({ x \in listdir(f, full_path) : f[x].kind = "file" }) # 0
    THEN Outcome(f, "Directory not empty", {})
    ELSE Outcome(f, "", {})

\* the emptiness check of generate_project
check_empty(f, full_path) ==
    IF Cardinality(listdir(f, full_path)) # 0
    THEN Outcome(f, "Directory not empty", {})
    ELSE Outcome(f, "", {})

(***************************************************************************)
(* generate_project, statement by statement                                *)
(***************************************************************************)

\* a slip: server/ is created before the emptiness check
Statements_server_first ==
    << "makedirs", "mkserver", "listdir", "compose", "env", "dockerfile",
       "requirements", "init", "app" >>

\* a slip: the application file is written before the package marker
Statements_app_early ==
    << "makedirs", "listdir", "mkserver", "compose", "env", "dockerfile",
       "requirements", "app", "init" >>

Statements ==
    << "makedirs", "listdir", "mkserver", "compose", "env", "dockerfile",
       "requirements", "init", "app" >>

WriteStatements == {"compose", "env", "dockerfile", "requirements", "init", "app"}

Running == { Statements[i] : i \in 1..Len(Statements) }
Terminal == {"done", "failed"}

Index(st) == CHOOSE i \in 1..Len(Statements) : Statements[i] = st

After(st) ==
    IF Index(st) = Len(Statements) THEN "done" ELSE Statements[Index(st) + 1]

\* the effect of one statement of generate_project
Statement(f, r, st) ==
    CASE st = "makedirs" -> makedirs(f, r.full_path)
      [] st = "listdir" -> check_empty(f, r.full_path)
      [] st = "mkserver" -> makedirs(f, Join(r.full_path, "server"))
      [] st = "compose" ->
            _make_docker_compose_file(f, r.full_path, r.mongodb_port, r.http_port)
      [] st = "env" ->
            _make_env_file(f, r.full_path, r.mongodb_port, r.mongodb_user,
                           r.mongodb_pass, r.server_api_key)
      [] st = "dockerfile" -> _make_dockerfile(f, r.full_path)
      [] st = "requirements" -> _make_requirements_file(f, r.full_path)
      [] st = "init" -> _make_init_file(f, r.full_path)
      [] st = "app" -> _make_app_file(f, r.full_path, r.template)

\* generate_project run from statement number i to its end with nothing
\* else acting on the filesystem: the filesystem it leaves and its error
RECURSIVE RunFrom(_, _, _)
RunFrom(f, r, i) ==
    IF i > Len(Statements) THEN [fs |-> f, err |-> ""]
    ELSE LET o == Statement(f, r, Statements[i])
         IN IF o.err # "" THEN [fs |-> o.fs, err |-> o.err]
            ELSE RunFrom(o.fs, r, i + 1)

generate_project(f, r) == RunFrom(f, r, 1)

(***************************************************************************)
(* State                                                                   *)
(*                                                                         *)
(*   fs         the filesystem: an entry for every path                     *)
(*   pc         where each caller is in generate_project                    *)
(*   req        the arguments of each caller's current call                 *)
(*   err        the error the call raised ("" when none)                    *)
(*   failedAt   the statement that raised it                                *)
(* History, read by the properties only:                                   *)
(*   wrote      the paths the current call created or wrote, in order       *)
(*   writer     for every path, the arguments of the call that last         *)
(*              created or wrote it                                         *)
(*   atCall     the target's tree and the template's source as the current  *)
(*              call found them                                             *)
(*   overlapped whether another call was running during the current one     *)
(***************************************************************************)

Procs == {1, 2}

\* a target, what is in it, and the directories above it
Scope(t) == Tree(t) \cup Chain(t)

\* the part of the filesystem a call with arguments r depends on
Snapshot(f, r) ==
    LET scope == Scope(r.full_path) \cup {ResolveTemplate(r.template)}
    IN [ p \in Paths |-> IF p \in scope THEN f[p] ELSE Absent ]

\* the files the filesystem holds before any call, outside the targets
StaticFs ==
    [ p \in Paths |->
        IF p \in {PkgDir, BundledDir, UserDir} THEN Dir
        ELSE IF p = BundledSimple THEN File(SimpleTemplateContents)
        ELSE IF p = UserTemplate THEN File(UserTemplateContents)
        ELSE IF p = EmptyTemplate THEN File(<<>>)
        ELSE Absent ]

\* what a target may look like before any call
Shapes == {"absent", "empty", "file", "subdir", "regular"}

Shaped(f, t, shape) ==
    CASE shape = "absent" -> f
      [] shape = "empty" -> [f EXCEPT ![t] = Dir]
      [] shape = "file" ->
            [f EXCEPT ![t] = Dir, ![Join(t, ForeignFile)] = File(<<"# notes">>)]
      [] shape = "subdir" -> [f EXCEPT ![t] = Dir, ![Join(t, ForeignDir)] = Dir]
      [] shape = "regular" -> [f EXCEPT ![t] = File(<<"not a directory">>)]

\* the first target is missing together with its parent, or empty, or holds
\* a file; the second is missing, or empty, or holds a subdirectory, or is
\* a regular file
InitialFs ==
    { Shaped(Shaped(IF s1 = "absent" THEN StaticFs
                    ELSE [StaticFs EXCEPT ![TmpDir] = Dir], Target1, s1),
             Target2, s2) :
        s1 \in {"absent", "empty", "file"},
        s2 \in {"absent", "empty", "subdir", "regular"} }

Init ==
    /\ fs \in InitialFs
    /\ pc = [p \in Procs |-> "idle"]
    /\ req = [p \in Procs |-> NoRequest]
    /\ err = [p \in Procs |-> ""]
    /\ failedAt = [p \in Procs |-> ""]
    /\ wrote = [p \in Procs |-> <<>>]
    /\ writer = [p \in Paths |-> NoRequest]
    /\ atCall = [p \in Procs |-> Snapshot(fs, NoRequest)]
    /\ overlapped = [p \in Procs |-> FALSE]

\* a set of directories, parents first
RECURSIVE InOrder(_)
InOrder(S) ==
    IF S = {} THEN <<>>
    ELSE LET top == CHOOSE a \in S : Parent(a) \notin S
         IN <<top>> \o InOrder(S \ {top})

(***************************************************************************)
(* Actions                                                                 *)
(***************************************************************************)

\* a caller enters generate_project(r.full_path, r.template, ...)
Enter(p, r) ==
    /\ pc' = [pc EXCEPT ![p] = "makedirs"]
    /\ req' = [req EXCEPT ![p] = r]
    /\ err' = [err EXCEPT ![p] = ""]
    /\ failedAt' = [failedAt EXCEPT ![p] = ""]
    /\ wrote' = [wrote EXCEPT ![p] = <<>>]
    /\ atCall' = [atCall EXCEPT ![p] = Snapshot(fs, r)]
    /\ overlapped' =
          [ q \in Procs |->
              IF q = p THEN \E o \in Procs \ {p} : pc[o] \in Running
              ELSE overlapped[q] \/ pc[q] \in Running ]
    /\ UNCHANGED <<fs, writer>>

\* a caller's first call
Call(p, r) ==
    /\ pc[p] = "idle"
    /\ Enter(p, r)

\* a caller calls again after its previous call returned or raised
CallAgain(p, r) ==
    /\ pc[p] \in Terminal
    /\ Enter(p, r)

\* the caller runs statement st of generate_project, at which it stands; an
\* error ends the call
Exec(p, st) ==
    /\ LET o == Statement(fs, req[p], st)
       IN /\ fs' = o.fs
          /\ writer' = [ x \in Paths |-> IF x \in o.touched THEN req[p] ELSE writer[x] ]
          /\ wrote' = [wrote EXCEPT ![p] = @ \o InOrder(o.touched)]
          /\ IF o.err = ""
             THEN /\ pc' = [pc EXCEPT ![p] = After(st)]
                  /\ UNCHANGED <<err, failedAt>>
             ELSE /\ pc' = [pc EXCEPT ![p] = "failed"]
                  /\ err' = [err EXCEPT ![p] = o.err]
                  /\ failedAt' = [failedAt EXCEPT ![p] = st]
    /\ UNCHANGED <<req, atCall, overlapped>>

MakeTargetDir(p) ==
    /\ pc[p] = "makedirs"
    /\ Exec(p, "makedirs")

RequireEmpty(p) ==
    /\ pc[p] = "listdir"
    /\ Exec(p, "listdir")

MakeServerDir(p) ==
    /\ pc[p] = "mkserver"
    /\ Exec(p, "mkserver")

MakeDockerComposeFile(p) ==
    /\ pc[p] = "compose"
    /\ Exec(p, "compose")

MakeEnvFile(p) ==
    /\ pc[p] = "env"
    /\ Exec(p, "env")

MakeDockerfile(p) ==
    /\ pc[p] = "dockerfile"
    /\ Exec(p, "dockerfile")

MakeRequirementsFile(p) ==
    /\ pc[p] = "requirements"
    /\ Exec(p, "requirements")

MakeInitFile(p) ==
    /\ pc[p] = "init"
    /\ Exec(p, "init")

MakeAppFile(p) ==
    /\ pc[p] = "app"
    /\ Exec(p, "app")


Step(p) ==
    \/ MakeTargetDir(p)
    \/ RequireEmpty(p)
    \/ MakeServerDir(p)
    \/ MakeDockerComposeFile(p)
    \/ MakeEnvFile(p)
    \/ MakeDockerfile(p)
    \/ MakeRequirementsFile(p)
    \/ MakeInitFile(p)
    \/ MakeAppFile(p)

\* the file a write statement writes
Written(r, st) == WriteSequence(r.full_path)[Index(st) - 3]

\* the filesystem refuses a write that would otherwise succeed (disk full,
\* permissions, ...): either open() raises and nothing changes, or write()
\* raises after open() created or truncated the file
WriteFault(p, mode) ==
    /\ pc[p] \in WriteStatements
    /\ Statement(fs, req[p], pc[p]).err = ""
    /\ LET o == IF mode = "open" THEN Outcome(fs, "", {})
                ELSE write_file(fs, Written(req[p], pc[p]), <<>>)
       IN /\ fs' = o.fs
          /\ writer' = [ x \in Paths |-> IF x \in o.touched THEN req[p] ELSE writer[x] ]
          /\ wrote' = [wrote EXCEPT ![p] = @ \o InOrder(o.touched)]
    /\ pc' = [pc EXCEPT ![p] = "failed"]
    /\ err' = [err EXCEPT ![p] = "OSError"]
    /\ failedAt' = [failedAt EXCEPT ![p] = pc[p]]
    /\ UNCHANGED <<req, atCall, overlapped>>

\* one caller making one call after another; the filesystem never refuses
\* a write
Next ==
    \/ \E r \in Requests(Targets, Templates, FewParams) : Call(1, r)
    \/ \E r \in Requests(Targets, Templates, FewParams) : CallAgain(1, r)
    \/ Step(1)

Spec == Init /\ [][Next]_vars

\* the same caller, every combination of parameters, one template
NextParams ==
    \/ \E r \in Requests(Targets, {UserTemplate}, AllParams) : Call(1, r)
    \/ \E r \in Requests(Targets, {UserTemplate}, AllParams) : CallAgain(1, r)
    \/ Step(1)

SpecParams == Init /\ [][NextParams]_vars

\* the requests of the two concurrent callers: each has its own parameters
ConcRequests(p) ==
    Requests(Targets, {UserTemplate, MissingTemplate},
             IF p = 1 THEN {DefaultParams} ELSE {ScenarioParams})

\* two callers, one call each, interleaved statement by statement
NextConc ==
    \/ \E p \in Procs : \E r \in ConcRequests(p) : Call(p, r)
    \/ \E p \in Procs : Step(p)

SpecConc == Init /\ [][NextConc]_vars

\* one caller making one call after another, and a filesystem that may
\* refuse any write
FaultRequests == Requests({Target1}, {UserTemplate, MissingTemplate}, FewParams)

NextFault ==
    \/ \E r \in FaultRequests : Call(1, r)
    \/ \E r \in FaultRequests : CallAgain(1, r)
    \/ Step(1)
    \/ \E mode \in {"open", "write"} : WriteFault(1, mode)

SpecFault == Init /\ [][NextFault]_vars

TypeOK ==
    /\ pc \in [Procs -> {"idle"} \cup Running \cup Terminal]
    /\ \A p \in Paths : fs[p].kind \in {"absent", "dir", "file"}

(***************************************************************************)
(* What a call found when it was made                                      *)
(***************************************************************************)

TargetOf(p) == req[p].full_path
SourceOf(p) == ResolveTemplate(req[p].template)

Called(p) == pc[p] # "idle"
Returned(p) == pc[p] \in Terminal

\* the target did not exist, or was an empty directory
FreshAtCall(p) ==
    \/ atCall[p][TargetOf(p)].kind = "absent"
    \/ /\ atCall[p][TargetOf(p)].kind = "dir"
       /\ listdir(atCall[p], TargetOf(p)) = {}

\* the target was a directory with at least one entry
NonEmptyAtCall(p) ==
    /\ atCall[p][TargetOf(p)].kind = "dir"
    /\ listdir(atCall[p], TargetOf(p)) # {}

\* the template selector named an existing file
TemplateAtCall(p) == atCall[p][SourceOf(p)]

\* the entries of the layout, and nothing else, are in the target
ExactlySix(f, t) ==
    /\ f[t].kind = "dir"
    /\ listdir(f, t) = {ComposePath(t), EnvPath(t), ServerDir(t)}
    /\ f[ServerDir(t)].kind = "dir"
    /\ listdir(f, ServerDir(t)) =
          {DockerfilePath(t), RequirementsPath(t), InitPath(t), AppPath(t)}
    /\ \A a \in Artifacts(t) : f[a].kind = "file"

(***************************************************************************)
(* C1: for every request whose target is absent (possibly with missing     *)
(* parents) or an empty directory and whose template resolves to an        *)
(* existing file, generate_project succeeds, the target holds exactly the  *)
(* six artifacts, and each has non-empty content except                    *)
(* server/__init__.py, which is empty.                                     *)
(* As stated it fails for a template that is an empty file: server/app.py  *)
(* is then empty as well.                                                  *)
(***************************************************************************)
C1_AsStated ==
    \A p \in Procs :
        (Returned(p) /\ FreshAtCall(p) /\ TemplateAtCall(p).kind = "file")
            => /\ pc[p] = "done"
               /\ ExactlySix(fs, TargetOf(p))
               /\ \A a \in Artifacts(TargetOf(p)) \ {InitPath(TargetOf(p))} :
                      fs[a].data # <<>>
               /\ fs[InitPath(TargetOf(p))].data = <<>>

(***************************************************************************)
(* C1, amended: the same, except that server/app.py has the content of     *)
(* the template, which is non-empty exactly when the template is.          *)
(***************************************************************************)
C1_FreshTargetGetsSixArtifacts ==
    \A p \in Procs :
        (Returned(p) /\ FreshAtCall(p) /\ TemplateAtCall(p).kind = "file")
            => /\ pc[p] = "done"
               /\ ExactlySix(fs, TargetOf(p))
               /\ \A a \in Artifacts(TargetOf(p))
                            \ {InitPath(TargetOf(p)), AppPath(TargetOf(p))} :
                      fs[a].data # <<>>
               /\ fs[InitPath(TargetOf(p))].data = <<>>
               /\ fs[AppPath(TargetOf(p))].data = TemplateAtCall(p).data

\* a call into a target whose parent directory was missing has returned
C1_Witness ==
    \E p \in Procs :
        /\ pc[p] = "done"
        /\ atCall[p][TargetOf(p)].kind = "absent"
        /\ atCall[p][TmpDir].kind = "absent"
        /\ TargetOf(p) = Target1
        /\ SourceOf(p) = EmptyTemplate

(***************************************************************************)
(* C2: if the target exists and has at least one entry, generate_project   *)
(* fails with the directory-not-empty error and writes nothing: no step    *)
(* of the call changes the filesystem.                                     *)
(***************************************************************************)
C2_NonEmptyTargetUntouched ==
    /\ [](\A p \in Procs :
            (Returned(p) /\ NonEmptyAtCall(p))
                => /\ pc[p] = "failed"
                   /\ err[p] = "Directory not empty"
                   /\ failedAt[p] = "listdir"
                   /\ wrote[p] = <<>>
                   /\ \A x \in Scope(TargetOf(p)) : fs[x] = atCall[p][x])
    /\ [][\A p \in Procs :
            (pc'[p] # pc[p] /\ NonEmptyAtCall(p)' ) => fs' = fs]_vars

\* a call into a directory holding a foreign subdirectory has failed
C2_Witness ==
    \E p \in Procs :
        /\ pc[p] = "failed"
        /\ NonEmptyAtCall(p)
        /\ atCall[p][Join(TargetOf(p), ForeignDir)].kind = "dir"

(***************************************************************************)
(* C3: for each built-in identifier, a call into a fresh target resolves   *)
(* the selector to the bundled template file (for "default:simple", the    *)
(* file templates/simple-application-template.py of the package),          *)
(* succeeds, and leaves server/app.py identical to that file.              *)
(***************************************************************************)
C3_BuiltinTemplateCopied ==
    \A p \in Procs :
        (Returned(p) /\ FreshAtCall(p) /\ req[p].template \in BuiltinTemplates)
            => /\ pc[p] = "done"
               /\ fs[SourceOf(p)].kind = "file"
               /\ fs[AppPath(TargetOf(p))] = fs[SourceOf(p)]
               /\ req[p].template = SimpleId
                    => /\ SourceOf(p) = BundledSimple
                       /\ fs[AppPath(TargetOf(p))] = File(SimpleTemplateContents)

(***************************************************************************)
(* C4: the generated .env and docker-compose.yml carry exactly the         *)
(* supplied values and differ from the default-parameter output only in    *)
(* those fields: .env names the user, the password, the database port and  *)
(* the api key on their lines, and its other lines are those of the        *)
(* default output; docker-compose.yml publishes <database_port>:27017 and  *)
(* <http_port>:8080 (and exposes the two ports), and its other lines are   *)
(* those of the default output.  Since every line is either fixed or built *)
(* from the named parameters, .env does not depend on http_port, and       *)
(* docker-compose.yml depends on neither the credentials nor the api key.  *)
(***************************************************************************)
DefaultEnv ==
    EnvContents(DefaultParams.mongodb_port, DefaultParams.mongodb_user,
                DefaultParams.mongodb_pass, DefaultParams.server_api_key)

DefaultCompose == ComposeContents(DefaultParams.mongodb_port, DefaultParams.http_port)

EnvReflects(data, r) ==
    /\ Len(data) = Len(DefaultEnv)
    /\ data[1] = "MONGO_INITDB_ROOT_USERNAME=" \o r.mongodb_user
    /\ data[2] = "MONGO_INITDB_ROOT_PASSWORD=" \o r.mongodb_pass
    /\ data[3] = "DB_HOST=mongodb"
    /\ data[4] = "DB_PORT=" \o ToString(r.mongodb_port)
    /\ data[5] = "DB_USER=" \o r.mongodb_user
    /\ data[6] = "DB_PASS=" \o r.mongodb_pass
    /\ data[7] = "SERVER_API_KEY=" \o r.server_api_key
    /\ data[8] = "WAITRESS_PORT=8080"
    /\ data[9] = "MODULE_NAME=app"
    /\ data[10] = "VARIABLE_NAME=app"
    /\ \A i \in 1..Len(data) : i \notin {1, 2, 4, 5, 6, 7} => data[i] = DefaultEnv[i]

ComposeReflects(data, r) ==
    /\ Len(data) = Len(DefaultCompose)
    /\ data[3] = "  mongodb:"
    /\ data[7] = "      - " \o ToString(r.mongodb_port) \o ":27017"
    /\ data[9] = "      - " \o ToString(r.mongodb_port)
    /\ data[12] = "  http:"
    /\ data[17] = "      - " \o ToString(r.http_port) \o ":8080"
    /\ data[19] = "      - " \o ToString(r.http_port)
    /\ \A i \in 1..Len(data) : i \notin {7, 9, 17, 19} => data[i] = DefaultCompose[i]

C4_FilesReflectParameters ==
    \A t \in Targets :
        /\ writer[EnvPath(t)] # NoRequest
              => /\ fs[EnvPath(t)].kind = "file"
                 /\ EnvReflects(fs[EnvPath(t)].data, writer[EnvPath(t)])
        /\ writer[ComposePath(t)] # NoRequest
              => /\ fs[ComposePath(t)].kind = "file"
                 /\ ComposeReflects(fs[ComposePath(t)].data, writer[ComposePath(t)])

\* a call with a non-default database port, the default http port and the
\* scenario's credentials has written both files
C4_Witness ==
    \E t \in Targets :
        /\ writer[EnvPath(t)] # NoRequest
        /\ writer[ComposePath(t)] = writer[EnvPath(t)]
        /\ writer[EnvPath(t)].mongodb_port = ScenarioParams.mongodb_port
        /\ writer[EnvPath(t)].http_port = DefaultParams.http_port
        /\ writer[EnvPath(t)].mongodb_user = ScenarioParams.mongodb_user

(***************************************************************************)
(* C5: there is no rollback: when the step writing the N-th artifact       *)
(* fails, the call ends with that error, no later artifact is written,     *)
(* and the artifacts 1..N-1 it wrote stay in the target as written.  When  *)
(* the template selector names a missing file, the call fails at the last  *)
(* step only (unless the filesystem refused an earlier write), leaving     *)
(* the five other artifacts and no server/app.py.                          *)
(***************************************************************************)
\* what the i-th write of a call with arguments r writes, for i < 6
Composed(r, i) ==
    CASE i = 1 -> ComposeContents(r.mongodb_port, r.http_port)
      [] i = 2 -> EnvContents(r.mongodb_port, r.mongodb_user, r.mongodb_pass,
                              r.server_api_key)
      [] i = 3 -> DockerfileContents
      [] i = 4 -> RequirementsContents
      [] i = 5 -> <<>>

\* the first n artifacts are in the target as the call wrote them, and the
\* ones after the k-th are not there
PartialSet(p, n, k) ==
    LET seq == WriteSequence(TargetOf(p))
    IN /\ \A i \in 1..n :
              /\ fs[seq[i]] = File(Composed(req[p], i))
              /\ writer[seq[i]] = req[p]
       /\ \A i \in (k + 1)..Len(seq) : fs[seq[i]].kind = "absent"

\* the artifacts the current call wrote, in order
ArtifactsWritten(p) ==
    LET IsArtifact(x) == x \in Artifacts(TargetOf(p))
    IN SelectSeq(wrote[p], IsArtifact)

C5_NoRollback ==
    \A p \in Procs :
        /\ (pc[p] = "failed" /\ failedAt[p] \in WriteStatements)
              => LET n == Index(failedAt[p]) - 3
                 IN /\ PartialSet(p, n - 1, n)
                    /\ ArtifactsWritten(p) \in
                          { SubSeq(WriteSequence(TargetOf(p)), 1, k) : k \in {n - 1, n} }
        /\ (Returned(p) /\ FreshAtCall(p) /\ TemplateAtCall(p).kind = "absent")
              => /\ pc[p] = "failed"
                 /\ err[p] # "OSError"
                      => /\ failedAt[p] = "app"
                         /\ err[p] = "FileNotFoundError"
                         /\ PartialSet(p, 5, 5)
                         /\ fs[ServerDir(TargetOf(p))].kind = "dir"

\* a call whose fourth write was refused after the file was created
C5_Witness ==
    \E p \in Procs :
        /\ pc[p] = "failed"
        /\ failedAt[p] = "requirements"
        /\ fs[RequirementsPath(TargetOf(p))] = File(<<>>)
        /\ fs[DockerfilePath(TargetOf(p))].kind = "file"

(***************************************************************************)
(* C6: for a selector that is not a built-in identifier and names an       *)
(* existing file, a successful call leaves server/app.py identical to      *)
(* that file, whatever the other parameters, and leaves the template file  *)
(* as it was.                                                              *)
(***************************************************************************)
C6_TemplateCopiedVerbatim ==
    \A p \in Procs :
        ( /\ Returned(p)
          /\ FreshAtCall(p)
          /\ req[p].template \notin BuiltinTemplates
          /\ TemplateAtCall(p).kind = "file" )
            => /\ pc[p] = "done"
               /\ fs[AppPath(TargetOf(p))] = File(TemplateAtCall(p).data)
               /\ fs[SourceOf(p)] = TemplateAtCall(p)

\* a call with non-default parameters whose template is the .env of the
\* other target has returned
C6_Witness ==
    \E p \in Procs :
        /\ pc[p] = "done"
        /\ TargetOf(p) = Target1
        /\ req[p].template = EnvPath(Target2)
        /\ req[p].mongodb_port # writer[EnvPath(Target2)].mongodb_port
        /\ fs[AppPath(Target1)].data # <<>>

(***************************************************************************)
(* C7: the composers of docker-compose.yml, .env, Dockerfile and           *)
(* requirements.txt are deterministic: two calls with the same inputs, in  *)
(* whatever state of the filesystem and into whatever targets, write the   *)
(* same content; Dockerfile and requirements.txt do not depend on the      *)
(* request at all.                                                         *)
(***************************************************************************)
SamePorts(r1, r2) ==
    r1.mongodb_port = r2.mongodb_port /\ r1.http_port = r2.http_port

SameEnvInputs(r1, r2) ==
    /\ r1.mongodb_port = r2.mongodb_port
    /\ r1.mongodb_user = r2.mongodb_user
    /\ r1.mongodb_pass = r2.mongodb_pass
    /\ r1.server_api_key = r2.server_api_key

ByGenerator(x) == writer[x] # NoRequest

C7_ComposersDeterministic ==
    \A t1, t2 \in Targets :
        /\ ( /\ ByGenerator(ComposePath(t1)) /\ ByGenerator(ComposePath(t2))
             /\ SamePorts(writer[ComposePath(t1)], writer[ComposePath(t2)]) )
              => fs[ComposePath(t1)] = fs[ComposePath(t2)]
        /\ ( /\ ByGenerator(EnvPath(t1)) /\ ByGenerator(EnvPath(t2))
             /\ SameEnvInputs(writer[EnvPath(t1)], writer[EnvPath(t2)]) )
              => fs[EnvPath(t1)] = fs[EnvPath(t2)]
        /\ (ByGenerator(DockerfilePath(t1)) /\ ByGenerator(DockerfilePath(t2)))
              => fs[DockerfilePath(t1)] = fs[DockerfilePath(t2)]
        /\ (ByGenerator(RequirementsPath(t1)) /\ ByGenerator(RequirementsPath(t2)))
              => fs[RequirementsPath(t1)] = fs[RequirementsPath(t2)]

\* both targets were generated, the first in a directory the call created
\* and the second in one that existed, with the same ports and the same
\* credentials
C7_Witness ==
    /\ \A t \in Targets : \A a \in Artifacts(t) : ByGenerator(a)
    /\ writer[Target1] # NoRequest
    /\ writer[Target2] = NoRequest
    /\ SamePorts(writer[ComposePath(Target1)], writer[ComposePath(Target2)])
    /\ SameEnvInputs(writer[EnvPath(Target1)], writer[EnvPath(Target2)])
    /\ writer[ComposePath(Target1)].mongodb_port # DefaultParams.mongodb_port

(***************************************************************************)
(* C8: in every execution of generate_project the emptiness check          *)
(* completes before server/ is created and before any artifact is          *)
(* written; server/ is created before any artifact; each artifact is       *)
(* written at most once, in the fixed order, server/app.py last.  So       *)
(* whenever a call has passed the check, the artifacts present in its      *)
(* target are a prefix of the write sequence.                              *)
(***************************************************************************)
\* what the current call created or wrote, the target and the directories
\* above it left out
WroteInTarget(p) ==
    LET Inside(x) == x \notin Chain(TargetOf(p))
    IN SelectSeq(wrote[p], Inside)

\* the call has not completed the emptiness check
BeforeCheck(p) ==
    \/ pc[p] \in {"idle", "makedirs", "listdir"}
    \/ pc[p] = "failed" /\ failedAt[p] \in {"makedirs", "listdir"}

IsPrefix(s1, s2) == Len(s1) <= Len(s2) /\ s1 = SubSeq(s2, 1, Len(s1))

C8_StepsInOrder ==
    \A p \in Procs :
        LET t == TargetOf(p)
            present == { a \in Artifacts(t) : fs[a].kind # "absent" }
        IN /\ BeforeCheck(p) => WroteInTarget(p) = <<>>
           /\ Called(p)
                => /\ \/ IsPrefix(WroteInTarget(p), <<ServerDir(t)>> \o WriteSequence(t))
                      \/ IsPrefix(WroteInTarget(p), WriteSequence(t))
                   /\ WroteInTarget(p) # <<>> => fs[ServerDir(t)].kind = "dir"
           /\ (Called(p) /\ ~BeforeCheck(p))
                => /\ present # {} => fs[ServerDir(t)].kind = "dir"
                   /\ \E k \in 0..Len(WriteSequence(t)) :
                          present = { WriteSequence(t)[i] : i \in 1..k }

\* two calls are in the middle of writing into the same target
C8_Witness ==
    /\ pc[1] = "requirements"
    /\ pc[2] = "env"
    /\ TargetOf(1) = TargetOf(2)

(***************************************************************************)
(* C9: calls share no mutable state: for two calls whose targets are       *)
(* disjoint and whose templates lie outside both targets, every            *)
(* interleaving of their statements ends with each target holding what     *)
(* its call would have produced alone, each call ending as it would have   *)
(* alone, and nothing in a target created or written by the other call.    *)
(***************************************************************************)
\* the filesystem the call would have run on, had it run alone
AloneFs(p) ==
    LET scope == Scope(TargetOf(p)) \cup {SourceOf(p)}
    IN [ x \in Paths |-> IF x \in scope THEN atCall[p][x] ELSE fs[x] ]

OutsideTargets(x) == \A t \in Targets : x \notin Tree(t)

C9_DisjointCallsIndependent ==
    \A p, q \in Procs :
        ( /\ Returned(p) /\ Returned(q)
          /\ TargetOf(p) # TargetOf(q)
          /\ OutsideTargets(SourceOf(p)) /\ OutsideTargets(SourceOf(q)) )
            => LET alone == generate_project(AloneFs(p), req[p])
               IN /\ \A x \in Tree(TargetOf(p)) : fs[x] = alone.fs[x]
                  /\ err[p] = alone.err
                  /\ \A x \in Tree(TargetOf(p)) : writer[x] \in {NoRequest, req[p]}

\* two calls that ran at the same time on different targets have both
\* returned normally
C9_Witness ==
    /\ pc[1] = "done" /\ pc[2] = "done"
    /\ overlapped[1] /\ overlapped[2]
    /\ TargetOf(1) # TargetOf(2)

(***************************************************************************)
(* C10: generate_project cannot be run again on its own output: once a     *)
(* call on a target has passed the emptiness check and created server/     *)
(* (whether it then succeeded or failed part-way), every later call on     *)
(* that target fails with the directory-not-empty error and leaves the     *)
(* target as it was.                                                       *)
(***************************************************************************)
\* an earlier call had created server/ in the target
GeneratedAtCall(p) ==
    /\ atCall[p][ServerDir(TargetOf(p))].kind = "dir"
    /\ ByGenerator(ServerDir(TargetOf(p)))

C10_NotRerunnable ==
    \A p \in Procs :
        (Called(p) /\ GeneratedAtCall(p))
            => /\ wrote[p] = <<>>
               /\ \A x \in Tree(TargetOf(p)) : fs[x] = atCall[p][x]
               /\ pc[p] # "done"
               /\ Returned(p)
                    => err[p] = "Directory not empty" /\ failedAt[p] = "listdir"

\* a retry after a call that failed at its third write has failed too, and
\* the later artifacts are still missing
C10_Witness ==
    \E p \in Procs :
        /\ pc[p] = "failed"
        /\ GeneratedAtCall(p)
        /\ err[p] = "Directory not empty"
        /\ fs[EnvPath(TargetOf(p))].kind = "file"
        /\ fs[DockerfilePath(TargetOf(p))].kind = "absent"

====
